---- MODULE Spec2Model ----
(***************************************************************************)
(* State-machine model of stock_scanner.py: the quota gate, the bounded    *)
(* API caller, the candidate filter, the per-symbol enrichment loop, the   *)
(* message assembly and main's sequencing.                                 *)
(*                                                                         *)
(* Numbers.  Prices are exact decimals held as integers in thousandths     *)
(* (9.9 is 9900); market caps are integers in dollars.  Python floats are  *)
(* modelled by exact arithmetic; round() is round-half-even on the exact   *)
(* value, and the inputs drawn below contain no exact ties, where the      *)
(* binary representation would decide.                                     *)
(*                                                                         *)
(* Strings are TLA+ strings; Len counts characters as Python's len does.   *)
(* Each emoji of the message template is one code point in Python and is   *)
(* written here as the single character "#".                               *)
(***************************************************************************)
EXTENDS Integers, Sequences, FiniteSets, TLC

VARIABLES
    pc,               \* position of the run: see the actions
    api_calls,        \* StockScanner.api_calls
    i,                \* loop index of _make_api_call (0-based)
    call,             \* state of the current _make_api_call
    response,         \* value _make_api_call returned
    gate,             \* value check_api_quota returned
    stocks_info,      \* list get_initial_stocks returned
    idx,              \* 1-based position of enrich_stock_data's loop
    enriched_stocks,  \* list built by enrich_stock_data
    body,             \* message body handed to client.messages.create
    log,              \* the lines printed, as tags, in order
    propagated,       \* TRUE when an exception left main
    \* history variables (not in the program), read only by the properties
    h_start,          \* api_calls when the current _make_api_call began
    h_fails,          \* RequestExceptions caught in the current call
    h_reqs,           \* requests.get issued by the current call
    h_sent,           \* requests.get issued by _make_api_call in the whole run
    h_served,         \* payload the provider served to the last request
    h_blocked,        \* attempts refused locally by the ceiling check
    h_looked,         \* candidate positions whose metadata was looked up
    h_origin,         \* candidate position each enriched record came from
    h_infos,          \* outcome of each metadata lookup, by candidate position
    h_assembled,      \* the message as assembled, before the length check
    h_notified,       \* calls of send_whatsapp
    h_submitted,      \* calls of client.messages.create
    h_quota,          \* what the quota endpoint answered
    h_delivery        \* how client.messages.create ended: "ok" or "error"

vars == << pc, api_calls, i, call, response, gate, stocks_info, idx,
           enriched_stocks, body, log, propagated, h_start, h_fails, h_reqs,
           h_sent, h_served, h_blocked, h_looked, h_origin, h_infos,
           h_assembled, h_notified, h_submitted, h_quota, h_delivery >>

callVars == << api_calls, i, call, response, h_start, h_fails, h_reqs,
               h_sent, h_served, h_blocked >>
scanVars == << gate, stocks_info, h_quota >>
enrichVars == << idx, enriched_stocks, h_looked, h_origin, h_infos >>
notifyVars == << body, h_assembled, h_notified, h_submitted, h_delivery >>

----------------------------------------------------------------------------
(* Program constants *)

max_daily_calls == 250
retries == 3
QUOTA_MARGIN == 5
MAX_MESSAGE_LENGTH == 1600
TRUNCATE_SLACK == 100
CAP_MIN == 10000000
CAP_MAX == 300000000
DESCRIPTION_CHARS == 200

(* Bounds of the model *)

MaxOver == 2        \* calls begun after the ceiling was passed (caller harness)
MaxQuotes == 2      \* quotes in a snapshot response
MaxRecords == 19    \* records handed to send_whatsapp (notifier harness)

----------------------------------------------------------------------------
(* JSON / dict values.  A field of a quote or of a metadata dict is a      *)
(* number, a string, null, or absent.                                      *)

Num(n) == [t |-> "num", v |-> n]
Str(s) == [t |-> "str", v |-> s]
Null == [t |-> "null", v |-> 0]
Absent == [t |-> "absent", v |-> 0]

\* dict.get(key, default): the default only when the key is absent
Get(field, default) == IF field.t = "absent" THEN default ELSE field

\* Python truthiness of a value used as a condition
Truthy(x) ==
    CASE x.t = "num" -> x.v # 0
      [] x.t = "str" -> x.v # ""
      [] OTHER -> FALSE

----------------------------------------------------------------------------
(* Arithmetic and formatting *)

Abs(n) == IF n < 0 THEN -n ELSE n

\* n/d rounded to the nearest integer, ties to even (d # 0)
RoundHalfEven(n, d) ==
    LET nn == IF d < 0 THEN -n ELSE n
        dd == Abs(d)
        q == nn \div dd
        r == nn % dd
    IN  IF 2 * r < dd THEN q
        ELSE IF 2 * r > dd THEN q + 1
        ELSE IF q % 2 = 0 THEN q ELSE q + 1

\* repr() of a float that has at most two decimals; h is the value in
\* hundredths and negative tells the sign of the value before rounding
\* (Python keeps it: round(-0.001, 2) prints as -0.0)
FloatRepr(h, negative) ==
    LET a == Abs(h)
        frac == a % 100
    IN  (IF negative THEN "-" ELSE "")
        \o ToString(a \div 100) \o "."
        \o (IF frac % 10 = 0 THEN ToString(frac \div 10)
            ELSE IF frac < 10 THEN "0" \o ToString(frac)
            ELSE ToString(frac))

\* round(x, 2) of a price held in thousandths, in hundredths
Round2(x) == RoundHalfEven(x, 10)

\* round((price / yearLow - 1) * 100, 2), in hundredths of a percent
DistanceFromLow(price, yearLow) ==
    RoundHalfEven(10000 * (price - yearLow), yearLow)

\* sign of (price / yearLow - 1) before rounding
DistanceNegative(price, yearLow) ==
    IF yearLow > 0 THEN price < yearLow ELSE price > yearLow

\* f"${market_cap/1e6:.1f}M" for a non-negative market cap
MarketCapStr(market_cap) ==
    LET tenths == RoundHalfEven(market_cap, 100000)
    IN  "$" \o ToString(tenths \div 10) \o "." \o ToString(tenths % 10) \o "M"

\* s[:n]
Prefix(s, n) == IF Len(s) <= n THEN s ELSE SubSeq(s, 1, n)

----------------------------------------------------------------------------
(* StockScanner.__init__ and the history variables at their start *)

InitRest ==
    /\ i = 0
    /\ call = "idle"
    /\ response = Null
    /\ gate = FALSE
    /\ stocks_info = << >>
    /\ idx = 1
    /\ body = ""
    /\ log = << >>
    /\ propagated = FALSE
    /\ h_start = 0
    /\ h_fails = 0
    /\ h_reqs = 0
    /\ h_sent = 0
    /\ h_served = Null
    /\ h_blocked = 0
    /\ h_looked = {}
    /\ h_origin = << >>
    /\ h_infos = << >>
    /\ h_assembled = ""
    /\ h_notified = 0
    /\ h_submitted = 0
    /\ h_quota = [kind |-> "none", remainingCalls |-> Absent]
    /\ h_delivery = "none"

InitObject ==
    /\ api_calls = 0
    /\ enriched_stocks = << >>
    /\ InitRest

----------------------------------------------------------------------------
(* _make_api_call.  One step per pass of its for loop.  The outcome of    *)
(* the pass's request is an input:                                         *)
(*   "ok"       requests.get and raise_for_status succeed, json() parses   *)
(*   "fail"     timeout, connection error or non-2xx status                *)
(*              (requests.exceptions.RequestException)                     *)
(*   "badjson"  the body is not JSON and json() raises a RequestException  *)
(*              (requests.exceptions.JSONDecodeError, requests >= 2.27)    *)
(*   "badjson_value"  the same with an older requests, whose json() raises *)
(*              ValueError, which the except clause does not catch         *)

Outcomes == {"ok", "fail", "badjson", "badjson_value"}

\* variant: the ceiling compared one too high
CeilingReached_OffByOne(calls) == calls > max_daily_calls + 1

\* line 37: the local ceiling check, made after the increment
CeilingReached(calls) == calls > max_daily_calls

\* variant: the last pass recognised one pass too late
LastAttempt_Late(k) == k = retries

\* line 47: the last pass of the loop
LastAttempt(k) == k = retries - 1

\* entry into _make_api_call(url)
BeginApiCall ==
    /\ i' = 0
    /\ call' = "running"
    /\ h_start' = api_calls
    /\ h_fails' = 0
    /\ h_reqs' = 0
    /\ UNCHANGED << api_calls, response, h_sent, h_served, h_blocked >>

\* one pass of the loop, lines 35-49
ApiAttempt(outcome, payload) ==
    /\ call = "running"
    /\ api_calls' = api_calls + 1
    /\ IF CeilingReached(api_calls + 1)
       THEN \* Exception("Daily API call limit reached"): not a
            \* RequestException, so it leaves the loop; nothing was sent
            /\ call' = "limit_error"
            /\ h_blocked' = h_blocked + 1
            /\ UNCHANGED << i, response, h_fails, h_reqs, h_sent, h_served >>
       ELSE /\ h_reqs' = h_reqs + 1
            /\ h_sent' = h_sent + 1
            /\ h_served' = IF outcome = "ok" THEN payload ELSE h_served
            /\ UNCHANGED h_blocked
            /\ CASE outcome = "ok" ->
                      /\ call' = "returned"
                      /\ response' = payload
                      /\ UNCHANGED << i, h_fails >>
                 [] outcome = "badjson_value" ->
                      /\ call' = "value_error"
                      /\ UNCHANGED << i, response, h_fails >>
                 [] OTHER ->
                      /\ h_fails' = h_fails + 1
                      /\ UNCHANGED response
                      /\ IF LastAttempt(i)
                         THEN call' = "retries_error" /\ UNCHANGED i
                         ELSE call' = "running" /\ i' = i + 1
    /\ UNCHANGED h_start

CallEnded == call \in {"returned", "limit_error", "value_error", "retries_error"}
CallRaised == call \in {"limit_error", "value_error", "retries_error"}

----------------------------------------------------------------------------
(* Caller harness: one StockScanner whose _make_api_call is called again   *)
(* and again, as the class allows; main itself calls it once per run.      *)

Payloads == {Str("r1"), Str("r2")}

InitCaller == InitObject /\ pc = "caller"

CallerBegin ==
    /\ pc = "caller"
    /\ call = "idle" \/ CallEnded
    /\ api_calls <= max_daily_calls + MaxOver
    /\ BeginApiCall
    /\ UNCHANGED << pc, log, propagated, scanVars, enrichVars, notifyVars >>

CallerAttempt ==
    /\ pc = "caller"
    /\ \E outcome \in Outcomes, payload \in Payloads :
          ApiAttempt(outcome, payload)
    /\ UNCHANGED << pc, log, propagated, scanVars, enrichVars, notifyVars >>

NextCaller == CallerBegin \/ CallerAttempt

SpecCaller == InitCaller /\ [][NextCaller]_vars

----------------------------------------------------------------------------
(* check_api_quota.  The quota endpoint's answer is an input.             *)

Dict(remaining) == [kind |-> "dict", remainingCalls |-> remaining]

QuotaResponses ==
    { [kind |-> "transport_error", remainingCalls |-> Absent],  \* get raises
      [kind |-> "not_json", remainingCalls |-> Absent],         \* json() raises
      [kind |-> "list", remainingCalls |-> Absent],             \* a JSON array
      Dict(Absent), Dict(Null), Dict(Str("100")),
      Dict(Num(0)), Dict(Num(3)), Dict(Num(5)), Dict(Num(6)) }

\* variant: the margin compared with >= instead of >
QuotaBody_AtLeast(resp) ==
    CASE resp.kind \in {"transport_error", "not_json"} -> "raise"
      [] resp.kind = "list" -> "False"
      [] resp.remainingCalls.t = "absent" -> "False"
      [] resp.remainingCalls.t = "num" ->
            IF resp.remainingCalls.v >= QUOTA_MARGIN THEN "True" ELSE "False"
      [] OTHER -> "raise"

\* lines 19-27, the body of the try: "True", "False" or "raise"
QuotaBody(resp) ==
    CASE resp.kind \in {"transport_error", "not_json"} -> "raise"
      [] resp.kind = "list" -> "False"       \* 'remainingCalls' in [...] is False
      [] resp.remainingCalls.t = "absent" -> "False"
      [] resp.remainingCalls.t = "num" ->
            IF resp.remainingCalls.v > QUOTA_MARGIN THEN "True" ELSE "False"
      [] OTHER -> "raise"                    \* None > 5, "100" > 5: TypeError

\* variant: the handler catches nothing, the raise leaves the function
check_api_quota_NoCatch(resp) ==
    [ret |-> QuotaBody(resp) = "True", raised |-> QuotaBody(resp) = "raise"]

\* lines 17-31: what the call gives main.  `except Exception` turns every
\* raise of the body into a returned False.
check_api_quota(resp) ==
    [ret |-> QuotaBody(resp) = "True", raised |-> FALSE]

----------------------------------------------------------------------------
(* get_initial_stocks *)

Quote(sym, price, yearLow) ==
    [isdict |-> TRUE, symbol |-> sym, price |-> price, yearLow |-> yearLow]

\* an array element that is no JSON object; quote.get raises AttributeError
NotAnObject ==
    [isdict |-> FALSE, symbol |-> Absent, price |-> Absent, yearLow |-> Absent]

QuoteSet ==
    { Quote(Str("ABC"), Num(9900), Num(10000)),     \* below the low
      Quote(Str("EDG"), Num(10200), Num(10000)),    \* exactly low * 1.02
      Quote(Str("OVR"), Num(10210), Num(10000)),    \* just above
      Quote(Str("XYZ"), Num(50000), Num(10000)),
      Quote(Str("NEG"), Num(-5000), Num(10000)),
      Quote(Str("NNG"), Num(-5000), Num(-1000)),
      Quote(Str("ZER"), Num(0), Num(10000)),
      Quote(Str("MIS"), Absent, Num(10000)),
      Quote(Str("TXT"), Str("9.9"), Num(10000)),
      Quote(Absent, Num(500), Null),
      NotAnObject }

\* variant: a tolerance of 20% instead of 2%
NearLow_Wide(quote) ==
    LET current_price == Get(quote.price, Num(0))
        year_low == Get(quote.yearLow, Num(0))
    IN  /\ Truthy(current_price)
        /\ Truthy(year_low)
        /\ year_low.t = "num"
        /\ current_price.t = "num"
        /\ 100 * current_price.v <= 120 * year_low.v

\* line 65 for one quote, with the (ValueError, TypeError) handler of
\* lines 72-73: TRUE when the quote is appended
NearLow(quote) ==
    LET current_price == Get(quote.price, Num(0))
        year_low == Get(quote.yearLow, Num(0))
    IN  /\ Truthy(current_price)
        /\ Truthy(year_low)
        /\ year_low.t = "num"        \* "..." * 1.02 raises TypeError
        /\ current_price.t = "num"   \* "..." <= 10.2 raises TypeError
        /\ 100 * current_price.v <= 102 * year_low.v

\* lines 66-70
Candidate(quote) ==
    [symbol |-> Get(quote.symbol, Str("")).v,
     price |-> quote.price.v,
     yearLow |-> quote.yearLow.v]

RECURSIVE MapCandidates(_)
MapCandidates(qs) ==
    IF qs = << >> THEN << >>
    ELSE << Candidate(Head(qs)) >> \o MapCandidates(Tail(qs))

\* whether the try of lines 54-75 raises: _make_api_call raised, or the
\* response is a JSON object (iterating it gives its keys, and str has no
\* .get), or an element of the array is no object
ScanRaises(status, quotes) ==
    \/ status # "returned"
    \/ quotes.t # "list"
    \/ \E k \in 1..Len(quotes.v) : ~quotes.v[k].isdict

\* lines 54-79: the list returned, given how _make_api_call ended
get_initial_stocks(status, quotes) ==
    IF ScanRaises(status, quotes) THEN << >>     \* except Exception: return []
    ELSE MapCandidates(SelectSeq(quotes.v, NearLow))

----------------------------------------------------------------------------
(* enrich_stock_data.  What yf.Ticker(symbol).info gives is an input:     *)
(* a raised error, or a dict whose keys may be absent or null.            *)

RECURSIVE Repeat(_, _)
Repeat(s, n) == IF n = 0 THEN "" ELSE s \o Repeat(s, n - 1)

LongSummary == Repeat("Develops therapies for rare diseases. ", 7)   \* 266 chars

Info(cap, name, industry, summary) ==
    [kind |-> "dict", marketCap |-> cap, longName |-> name,
     industry |-> industry, sector |-> Str("Healthcare"),
     volume |-> Num(120000), longBusinessSummary |-> summary]

LookupError ==
    [kind |-> "raise", marketCap |-> Absent, longName |-> Absent,
     industry |-> Absent, sector |-> Absent, volume |-> Absent,
     longBusinessSummary |-> Absent]

InfoSet ==
    { LookupError,
      Info(Absent, Str("No Cap Inc"), Absent, Absent),
      Info(Num(9999999), Str("Tiny Co"), Absent, Str("Small.")),
      Info(Num(10000000), Str("Acme Corp"), Str("Biotechnology"),
           Str("Makes things.")),
      Info(Num(50000000), Absent, Absent, Absent),
      Info(Num(50000000), Str("Null Summary Ltd"), Str("Banks"), Null),
      Info(Num(300000000), Str("Big Pharma Holdings"), Str("Drugs"),
           Str(LongSummary)),
      Info(Num(300000001), Str("Too Big Corp"), Absent, Str("Large.")) }

\* line 95
InBand(market_cap) == CAP_MIN <= market_cap /\ market_cap <= CAP_MAX

\* line 110: info.get('longBusinessSummary', 'N/A')[:200] + '...'
Description(summary) == Prefix(summary, DESCRIPTION_CHARS) \o "..."

\* lines 98-111
StockInfo(stock, info) ==
    [Symbol |-> stock.symbol,
     CompanyName |-> Get(info.longName, Str("N/A")).v,
     CurrentPrice |-> FloatRepr(Round2(stock.price), stock.price < 0),
     Low52Week |-> FloatRepr(Round2(stock.yearLow), stock.yearLow < 0),
     DistanceFromLow |->
         FloatRepr(DistanceFromLow(stock.price, stock.yearLow),
                   DistanceNegative(stock.price, stock.yearLow)) \o "%",
     MarketCap |-> MarketCapStr(info.marketCap.v),
     Industry |-> Get(info.industry, Str("N/A")).v,
     Sector |-> Get(info.sector, Str("N/A")).v,
     Volume |-> Get(info.volume, Num(0)).v,
     Description |-> Description(Get(info.longBusinessSummary, Str("N/A")).v)]

\* lines 88-118 for one candidate: "append", "skip" (the continue of line
\* 96) or "raise".  Every raise inside the try (the lookup itself, None
\* compared with an int, None[:200]) reaches `except Exception`.
PassOutcome(stock, info) ==
    LET market_cap == Get(info.marketCap, Num(0))
        summary == Get(info.longBusinessSummary, Str("N/A"))
    IN  CASE info.kind = "raise" -> "raise"
          [] market_cap.t # "num" -> "raise"
          [] ~InBand(market_cap.v) -> "skip"
          [] summary.t # "str" -> "raise"
          [] OTHER -> "append"

\* variant: `break` instead of `continue` in the except clause
NextIndex_Break(k, outcome) ==
    IF outcome = "raise" THEN Len(stocks_info) + 1 ELSE k + 1

\* where the loop goes after the pass for position k: lines 96 and 118 are
\* `continue`, line 113 falls through to the next pass
NextIndex(k, outcome) == k + 1

\* one pass of the for loop of lines 87-118
EnrichPass(info) ==
    LET stock == stocks_info[idx]
        outcome == PassOutcome(stock, info)
    IN  /\ h_looked' = h_looked \cup {idx}
        /\ h_infos' = Append(h_infos, info)
        /\ IF outcome = "append"
           THEN /\ enriched_stocks' = Append(enriched_stocks, StockInfo(stock, info))
                /\ h_origin' = Append(h_origin, idx)
           ELSE UNCHANGED << enriched_stocks, h_origin >>
        /\ log' = IF outcome = "raise" THEN Append(log, "error_processing")
                  ELSE log
        /\ idx' = NextIndex(idx, outcome)

----------------------------------------------------------------------------
(* send_whatsapp *)

HEADER == "# *Small Cap Stocks at 52-Week Lows* #\n\n"
SUFFIX == "\n\n(Message truncated due to length)"
Now == "2024-01-15 09:30:00"       \* datetime.now() as %Y-%m-%d %H:%M:%S

\* lines 137-141
Block(stock) ==
    "*" \o stock.Symbol \o " - " \o stock.CompanyName \o "*\n"
    \o "# Price: $" \o stock.CurrentPrice \o "\n"
    \o "# From Low: " \o stock.DistanceFromLow \o "\n"
    \o "# Industry: " \o stock.Industry \o "\n"
    \o "# Market Cap: " \o stock.MarketCap \o "\n\n"

RECURSIVE Blocks(_)
Blocks(stocks_data) ==
    IF stocks_data = << >> THEN ""
    ELSE Block(Head(stocks_data)) \o Blocks(Tail(stocks_data))

\* lines 134-144
Assemble(stocks_data, calls) ==
    HEADER \o Blocks(stocks_data)
    \o "Generated: " \o Now \o "\n"
    \o "FMP API Calls Used: " \o ToString(calls)

\* variant: cut at the limit itself, leaving no room for the notice
Truncate_NoSlack(message_body) ==
    IF Len(message_body) > MAX_MESSAGE_LENGTH
    THEN Prefix(message_body, MAX_MESSAGE_LENGTH) \o SUFFIX
    ELSE message_body

\* lines 146-147
Truncate(message_body) ==
    IF Len(message_body) > MAX_MESSAGE_LENGTH
    THEN Prefix(message_body, MAX_MESSAGE_LENGTH - TRUNCATE_SLACK) \o SUFFIX
    ELSE message_body

\* lines 149-159: client.messages.create either returns or raises; the
\* raise is caught and printed.  raised: whether send_whatsapp itself raises.
Deliver(delivery) ==
    [printed |-> IF delivery = "ok" THEN "sent" ELSE "error_sending",
     raised |-> FALSE]

send_whatsapp(stocks_data, calls, delivery) ==
    /\ h_assembled' = Assemble(stocks_data, calls)
    /\ body' = Truncate(Assemble(stocks_data, calls))
    /\ h_notified' = h_notified + 1
    /\ h_submitted' = h_submitted + 1
    /\ h_delivery' = delivery

----------------------------------------------------------------------------
(* main *)

RECURSIVE SeqsUpTo(_, _)
SeqsUpTo(S, n) ==
    IF n = 0 THEN { << >> }
    ELSE LET shorter == SeqsUpTo(S, n - 1)
         IN  shorter \cup { Append(q, x) : q \in shorter, x \in S }

\* what the quote-snapshot endpoint may answer with a 2xx status
SnapshotPayloads ==
    { [t |-> "list", v |-> qs] : qs \in SeqsUpTo(QuoteSet, MaxQuotes) }
    \cup { [t |-> "dict", v |-> << >>] }      \* e.g. {"Error Message": ...}

\* variant: the notifier called whatever the list holds
ShouldNotify_Always(stocks_at_low) == TRUE

\* line 170: `if stocks_at_low`
ShouldNotify(stocks_at_low) == stocks_at_low # << >>

Init == InitObject /\ pc = "main"

\* lines 162-166: the quota gate, and on success the entry into
\* scan_stocks -> get_initial_stocks -> _make_api_call
MainQuota ==
    /\ pc = "main"
    /\ \E resp \in QuotaResponses :
          LET r == check_api_quota(resp)
              printed == IF QuotaBody(resp) = "raise"
                         THEN Append(log, "error_checking_quota") ELSE log
          IN  /\ h_quota' = resp
              /\ IF r.raised
                 THEN /\ propagated' = TRUE   \* line 164 is outside main's try
                      /\ pc' = "done"
                      /\ UNCHANGED << log, gate, callVars >>
                 ELSE /\ gate' = r.ret
                      /\ UNCHANGED propagated
                      /\ IF r.ret
                         THEN /\ pc' = "scan"
                              /\ log' = printed
                              /\ BeginApiCall
                         ELSE /\ pc' = "done"
                              /\ log' = Append(printed, "insufficient")
                              /\ UNCHANGED callVars
    /\ UNCHANGED << stocks_info, enrichVars, notifyVars >>

\* one request of get_initial_stocks' _make_api_call
ScanAttempt ==
    /\ pc = "scan"
    /\ \E outcome \in Outcomes, payload \in SnapshotPayloads :
          ApiAttempt(outcome, payload)
    /\ UNCHANGED << pc, log, propagated, scanVars, enrichVars, notifyVars >>

\* lines 57-79 and 125, once _make_api_call has returned or raised
ScanReturn ==
    /\ pc = "scan"
    /\ CallEnded
    /\ stocks_info' = get_initial_stocks(call, response)
    /\ log' = log \o (IF ScanRaises(call, response) THEN << "error_fetching" >>
                      ELSE << >>) \o << "found" >>
    /\ pc' = "enrich"
    /\ UNCHANGED << gate, h_quota, propagated, callVars, enrichVars, notifyVars >>

EnrichStep ==
    /\ pc = "enrich"
    /\ idx <= Len(stocks_info)
    /\ \E info \in InfoSet : EnrichPass(info)
    /\ UNCHANGED << pc, propagated, scanVars, callVars, notifyVars >>

\* lines 120-121, 128, 170-179
MainNotify ==
    /\ pc = "enrich"
    /\ idx > Len(stocks_info)
    /\ ShouldNotify(enriched_stocks)
    /\ \E delivery \in {"ok", "error"} :
          /\ send_whatsapp(enriched_stocks, api_calls, delivery)
          /\ log' = log \o << "enrichment_complete", Deliver(delivery).printed,
                             IF Deliver(delivery).raised THEN "error_running"
                             ELSE "success" >>
    /\ pc' = "done"
    /\ UNCHANGED << propagated, scanVars, callVars, enrichVars >>

\* lines 120-121, 128, 180-181
MainNothing ==
    /\ pc = "enrich"
    /\ idx > Len(stocks_info)
    /\ ~ShouldNotify(enriched_stocks)
    /\ log' = log \o << "enrichment_complete", "nothing_found" >>
    /\ pc' = "done"
    /\ UNCHANGED << propagated, scanVars, callVars, enrichVars, notifyVars >>

Next ==
    \/ MainQuota
    \/ ScanAttempt
    \/ ScanReturn
    \/ EnrichStep
    \/ MainNotify
    \/ MainNothing

Spec == Init /\ [][Next]_vars

----------------------------------------------------------------------------
(* Notifier harness: send_whatsapp called on lists of records long enough  *)
(* to pass the length limit.  The records are those enrich_stock_data      *)
(* builds from candidates and metadata that pass its filters.              *)

CandidateList ==
    << [symbol |-> "ABC", price |-> 9900, yearLow |-> 10000],
       [symbol |-> "EDG", price |-> 10200, yearLow |-> 10000],
       [symbol |-> "PQR", price |-> 12346, yearLow |-> 12500],
       [symbol |-> "NNG", price |-> -5000, yearLow |-> -1000],
       [symbol |-> "NEG", price |-> -5000, yearLow |-> 10000] >>

InfoList ==
    << Info(Num(10000000), Str("Acme Corp"), Str("Biotechnology"),
            Str("Makes things.")),
       Info(Num(50000000), Absent, Absent, Absent),
       Info(Num(300000000), Str("Big Pharma Holdings"), Str("Drugs"),
            Str(LongSummary)) >>

RecordList(n, a, b) ==
    [j \in 1..n |->
        StockInfo(CandidateList[((j + a) % Len(CandidateList)) + 1],
                  InfoList[((j + b) % Len(InfoList)) + 1])]

InitNotify ==
    /\ pc = "notifier"
    /\ api_calls \in 1..retries
    /\ \E n \in 1..MaxRecords, a \in 1..Len(CandidateList), b \in 1..Len(InfoList) :
          enriched_stocks = RecordList(n, a, b)
    /\ InitRest

NotifierSend ==
    /\ pc = "notifier"
    /\ \E delivery \in {"ok", "error"} :
          /\ send_whatsapp(enriched_stocks, api_calls, delivery)
          /\ log' = Append(log, Deliver(delivery).printed)
    /\ pc' = "done"
    /\ UNCHANGED << propagated, scanVars, callVars, enrichVars >>

NextNotify == NotifierSend

SpecNotify == InitNotify /\ [][NextNotify]_vars

----------------------------------------------------------------------------
(* Properties of _make_api_call, checked under SpecCaller *)

\* C1: a call that returns after k caught failures (k in 0..2) returns the
\* payload of its successful request and has incremented api_calls exactly
\* k+1 times; a call that ends with the retries error has made exactly 3
\* attempts, all failed; no call issues a 4th request.
C1_RetryContract ==
    /\ h_reqs <= 3
    /\ call = "returned" =>
          /\ h_fails \in 0..2
          /\ api_calls - h_start = h_fails + 1
          /\ h_reqs = h_fails + 1
          /\ response = h_served
    /\ call = "retries_error" =>
          /\ h_fails = 3
          /\ api_calls - h_start = 3
          /\ h_reqs = 3

\* C1 witness: fail, fail, succeed
C1_FailFailSucceed ==
    /\ call = "returned"
    /\ h_fails = 2
    /\ api_calls - h_start = 3

\* C2: every attempt made once api_calls has passed 250 is refused locally:
\* it sends nothing, ends the call with the limit error and is not retried,
\* also when the ceiling is crossed inside a retry loop; so at most 250
\* requests are ever sent.
C2_CeilingBlocks ==
    /\ h_sent <= 250
    /\ h_sent + h_blocked = api_calls
    /\ api_calls > 250 =>
          /\ h_sent = 250
          /\ \/ call = "limit_error"
             \/ call = "running" /\ i = 0 /\ h_reqs = 0   \* a call just begun

\* C2 witness: the ceiling crossed in the middle of a retry loop
C2_CrossedMidLoop ==
    /\ call = "limit_error"
    /\ h_fails = 1
    /\ h_reqs = 1
    /\ api_calls = 251

----------------------------------------------------------------------------
(* Properties of a run of main, checked under Spec *)

Last(q) == q[Len(q)]
ScanDone == pc \in {"enrich", "done"} /\ gate
AllObjects(quotes) == \A k \in 1..Len(quotes) : quotes[k].isdict

\* the filter as the specification words it
PositiveNearLow(quote) ==
    /\ quote.price.t = "num" /\ quote.price.v > 0
    /\ quote.yearLow.t = "num" /\ quote.yearLow.v > 0
    /\ 100 * quote.price.v <= 102 * quote.yearLow.v

\* C3: of the quotes of a snapshot, exactly those with price > 0,
\* yearLow > 0 and price <= yearLow * 1.02 become candidates; a quote with
\* a missing, zero or negative price or yearLow is excluded.
C3_CandidateIffPositiveNearLow ==
    (ScanDone /\ call = "returned" /\ response.t = "list"
        /\ AllObjects(response.v))
    => stocks_info = MapCandidates(SelectSeq(response.v, PositiveNearLow))

\* the band as the specification words it
MetadataInBand(info) ==
    /\ info.kind = "dict"
    /\ info.marketCap.t = "num"
    /\ 10000000 <= info.marketCap.v
    /\ info.marketCap.v <= 300000000

\* C4: a candidate yields a record iff its lookup succeeded with a market
\* cap inside [10,000,000, 300,000,000]; nothing else drops a candidate
\* inside the band, and an absent business summary renders as "N/A".
C4_RecordIffInBand ==
    /\ \A k \in 1..Len(h_infos) :
          (\E j \in 1..Len(h_origin) : h_origin[j] = k)
              <=> MetadataInBand(h_infos[k])
    /\ \A j \in 1..Len(h_origin) :
          h_infos[h_origin[j]].longBusinessSummary.t = "absent"
              => enriched_stocks[j].Description = "N/A"

\* the candidate a record was built from
Source(j) == stocks_info[h_origin[j]]

\* C5 as claimed: the distance from the low of every record is >= 0.
\* Stated for the candidates with a positive price and a positive yearLow,
\* the ones the filter is meant to let through.
C5_DistanceNonNegative ==
    \A j \in 1..Len(h_origin) :
        (Source(j).price > 0 /\ Source(j).yearLow > 0)
            => DistanceFromLow(Source(j).price, Source(j).yearLow) >= 0

\* C5 as amended: the distance from the low of a record is at most 2.00
\* when the candidate's yearLow is positive (and is negative when the price
\* is below the low), and at least 2.00 when its yearLow is negative; the
\* record's text is that value's repr followed by "%".
C5_DistanceAtMostTwoPercent ==
    \A j \in 1..Len(h_origin) :
        LET d == DistanceFromLow(Source(j).price, Source(j).yearLow)
        IN  /\ Source(j).yearLow > 0 => d <= 200
            /\ Source(j).yearLow < 0 => d >= 200
            /\ Source(j).yearLow # 0
            /\ enriched_stocks[j].DistanceFromLow
                   = FloatRepr(d, DistanceNegative(Source(j).price,
                                                   Source(j).yearLow)) \o "%"

\* C5 witness: a record whose price is below its 52-week low
C5_RecordBelowLow ==
    \E j \in 1..Len(h_origin) :
        /\ Source(j).price = 9900 /\ Source(j).yearLow = 10000
        /\ enriched_stocks[j].DistanceFromLow = "-1.0%"

\* C7: the gate opens only on a remainingCalls number above 5 and is
\* closed on every failure; a closed gate ends the run at once, with no
\* snapshot request, no lookup, no message and api_calls still 0.
C7_QuotaGate ==
    pc # "main" =>
        /\ gate => /\ h_quota.kind = "dict"
                   /\ h_quota.remainingCalls.t = "num"
                   /\ h_quota.remainingCalls.v > 5
        /\ ~gate => /\ pc = "done"
                    /\ api_calls = 0
                    /\ h_sent = 0
                    /\ h_looked = {}
                    /\ h_notified = 0
                    /\ h_submitted = 0
                    /\ call = "idle"

\* C7 witness: remainingCalls = 3 ends the run before any call
C7_ThreeRemaining ==
    /\ pc = "done"
    /\ h_quota = Dict(Num(3))
    /\ ~gate
    /\ Last(log) = "insufficient"

\* C8: send_whatsapp runs at most once, only after the gate passed and the
\* scan and the enrichment finished with a non-empty list; a finished run
\* has called it iff the gate passed and the list is non-empty, and a run
\* with no records (a failed scan included) printed that nothing was found.
C8_NotifyIffRecords ==
    /\ h_notified <= 1
    /\ h_notified = 1 =>
          /\ gate
          /\ CallEnded
          /\ idx > Len(stocks_info)
          /\ h_looked = 1..Len(stocks_info)
          /\ enriched_stocks # << >>
    /\ pc = "done" =>
          /\ h_notified = 1 <=> (gate /\ enriched_stocks # << >>)
          /\ (gate /\ enriched_stocks = << >>) => Last(log) = "nothing_found"

\* C8 witness: the scan failed, nothing was found, the notifier never ran
C8_ScanFailedNothingSent ==
    /\ pc = "done"
    /\ gate
    /\ call = "retries_error"
    /\ h_notified = 0
    /\ Last(log) = "nothing_found"

\* C10: the loop looks up every candidate, in order, whatever happened to
\* the ones before; the records are a subsequence of the candidates: each
\* comes from one candidate, no candidate gives two, the order is kept.
C10_BatchSubsequence ==
    /\ ScanDone => h_looked = 1..(idx - 1)
    /\ (pc = "done" /\ gate) => h_looked = 1..Len(stocks_info)
    /\ Len(h_origin) = Len(enriched_stocks)
    /\ \A j \in 1..Len(h_origin) :
          /\ h_origin[j] \in 1..Len(stocks_info)
          /\ enriched_stocks[j].Symbol = stocks_info[h_origin[j]].symbol
    /\ \A j, k \in 1..Len(h_origin) : j < k => h_origin[j] < h_origin[k]

\* C10 witness: the first lookup raised and the second candidate was kept
C10_KeptAfterFailure ==
    /\ pc = "done"
    /\ Len(stocks_info) = 2
    /\ h_infos[1].kind = "raise"
    /\ h_origin = << 2 >>

----------------------------------------------------------------------------
(* Clean exit of main, checked under Spec *)

\* an upper bound on the steps main still has to take
StepsLeft ==
    CASE pc = "done" -> 0
      [] pc = "enrich" -> 1 + (Len(stocks_info) + 1 - idx)
      [] pc = "scan" /\ CallEnded -> 2 + MaxQuotes
      [] pc = "scan" -> 2 + MaxQuotes + (retries - i)
      [] OTHER -> 3 + MaxQuotes + retries

\* C9: whatever fails (quota request, snapshot attempts, ceiling, lookups,
\* delivery), main comes to its end and no exception leaves it: no
\* exception is ever propagated, the run is never stuck before the end of
\* main, and every step brings that end nearer; a failed delivery is
\* printed by send_whatsapp, which returns normally to main.
C9_CleanExit ==
    /\ [](~propagated)
    /\ [](pc # "done" => ENABLED Next)
    /\ [](StepsLeft >= 0)
    /\ [][StepsLeft' < StepsLeft]_vars
    /\ [](h_delivery = "error" =>
            /\ pc = "done"
            /\ log[Len(log) - 1] = "error_sending"
            /\ Last(log) = "success")

\* C9 witness: a run whose delivery failed
C9_DeliveryFailed ==
    /\ pc = "done"
    /\ h_delivery = "error"
    /\ ~propagated

----------------------------------------------------------------------------
(* Message assembly, checked under SpecNotify *)

\* C6: a message longer than 1600 characters is submitted as its first
\* 1500 characters followed by the truncation notice; a message of at most
\* 1600 characters is submitted unchanged; the submitted body never exceeds
\* 1600 characters.
C6_TruncatedBody ==
    h_notified > 0 =>
        /\ Len(body) <= 1600
        /\ Len(h_assembled) <= 1600 => body = h_assembled
        /\ Len(h_assembled) > 1600 =>
              /\ Len(body) = 1535
              /\ SubSeq(body, 1, 1500) = SubSeq(h_assembled, 1, 1500)
              /\ SubSeq(body, 1501, 1535) = "\n\n(Message truncated due to length)"

\* C6 witness: an assembled message longer than the limit was sent
C6_LongMessage ==
    /\ h_notified = 1
    /\ Len(h_assembled) > 1600
    /\ h_submitted = 1

====
